---------------------------- MODULE Spec2Model ----------------------------
(***************************************************************************)
(* Model of the chat pipeline of the GA4 dashboard:                        *)
(*   modules/query_parser.py   QueryParser (period, metric, dimension,     *)
(*                             ranking, comparison, query type)            *)
(*   components/chat_view.py   render_chat_view, _calculate_previous_period*)
(*                             _detect_event_from_query, add_message       *)
(*   components/dashboard_view.py  _calculate_previous_period (copy)       *)
(*   utils/config.py           EVENT_ALIAS_MAP                             *)
(*                                                                         *)
(* A query text is a sequence of atoms.  An atom is a piece of Japanese    *)
(* text that no keyword of the program splits; it is written here in       *)
(* ASCII: "kako" is the two characters of 'past', "nichi" the character of *)
(* 'day', "kan" the character of 'span', and so on (see the tables).  A    *)
(* digit is an atom of its own, so that \d+ and int() are modelled on the  *)
(* digits of the text.  A keyword is a sequence of atoms and `in` is       *)
(* contiguous containment.                                                 *)
(*                                                                         *)
(* A date is its proleptic Gregorian ordinal, as in datetime.date; a date  *)
(* string '%Y-%m-%d' is the triple <<year, month, day>> that strftime      *)
(* prints and strptime reads.                                              *)
(***************************************************************************)
EXTENDS Integers, Sequences, FiniteSets, TLC

None == "None"

(***************************************************************************)
(* datetime.date arithmetic, as the standard library computes it.          *)
(***************************************************************************)
IsLeap(y) == (y % 4 = 0) /\ ((y % 100 # 0) \/ (y % 400 = 0))

DaysBeforeYear(y) ==
    LET p == y - 1 IN p * 365 + (p \div 4) - (p \div 100) + (p \div 400)

DaysInMonth(y, m) ==
    IF m = 2 THEN (IF IsLeap(y) THEN 29 ELSE 28)
    ELSE IF m \in {4, 6, 9, 11} THEN 30 ELSE 31

\* days of the year before the first day of month m
DaysBeforeMonth(y, m) ==
    <<0, 31, 59, 90, 120, 151, 181, 212, 243, 273, 304, 334>>[m]
    + (IF m > 2 /\ IsLeap(y) THEN 1 ELSE 0)

\* date(y, m, d).toordinal()
Ymd2Ord(y, m, d) == DaysBeforeYear(y) + DaysBeforeMonth(y, m) + d

\* the month that holds the 0-based day n of year y: an estimate that is
\* exact or one too large
MonthOf(y, n) ==
    LET m == (n + 50) \div 32
    IN  IF DaysBeforeMonth(y, m) > n THEN m - 1 ELSE m

\* date.fromordinal(n) as <<year, month, day>>
Ord2Ymd(ord) ==
    LET n0   == ord - 1
        n400 == n0 \div 146097
        r400 == n0 % 146097
        n100 == r400 \div 36524
        r100 == r400 % 36524
        n4   == r100 \div 1461
        r4   == r100 % 1461
        n1   == r4 \div 365
        r1   == r4 % 365
        y    == n400 * 400 + 1 + n100 * 100 + n4 * 4 + n1
    IN  IF n1 = 4 \/ n100 = 4
        THEN <<y - 1, 12, 31>>
        ELSE LET m == MonthOf(y, r1)
             IN  <<y, m, r1 - DaysBeforeMonth(y, m) + 1>>

\* date.weekday(): Monday is 0, Sunday is 6
Weekday(ord) == (ord + 6) % 7

\* The result of a step that may raise: [ok |-> TRUE, v |-> value] or
\* [ok |-> FALSE, exc |-> name of the exception raised]
Ok(v) == [ok |-> TRUE, v |-> v]
Raise(e) == [ok |-> FALSE, exc |-> e]

\* date - timedelta(days=k): OverflowError when the result leaves
\* [date.min, date.max] = [0001-01-01, 9999-12-31], the ordinals 1..3652059
DateMinusDays(ord, k) ==
    IF ord - k >= 1 /\ ord - k <= 3652059
    THEN Ok(ord - k)
    ELSE Raise("OverflowError")

\* date.replace(day=1)
ReplaceDay1(ord) ==
    LET t == Ord2Ymd(ord) IN Ymd2Ord(t[1], t[2], 1)

\* date.strftime('%Y-%m-%d') and datetime.strptime(s, '%Y-%m-%d')
Strftime(ord) == Ord2Ymd(ord)
Strptime(s) == Ymd2Ord(s[1], s[2], s[3])

\* order of two date strings of the same width
DateStrLeq(a, b) ==
    \/ a[1] < b[1]
    \/ a[1] = b[1] /\ a[2] < b[2]
    \/ a[1] = b[1] /\ a[2] = b[2] /\ a[3] <= b[3]

(***************************************************************************)
(* Text: sequences of atoms.                                               *)
(***************************************************************************)
Digits == {"0", "1", "2", "3", "4", "5", "6", "7", "8", "9"}

DigitVal(c) ==
    CASE c = "0" -> 0 [] c = "1" -> 1 [] c = "2" -> 2 [] c = "3" -> 3
      [] c = "4" -> 4 [] c = "5" -> 5 [] c = "6" -> 6 [] c = "7" -> 7
      [] c = "8" -> 8 [] c = "9" -> 9

\* Every day count above date.max's ordinal takes the same path (the date
\* subtraction overflows), so int() is computed exactly below IntCap and
\* saturates at it.
IntCap == 10000000

RECURSIVE IntAcc(_, _, _, _)
IntAcc(text, i, j, acc) ==
    IF i > j THEN acc
    ELSE LET v == acc * 10 + DigitVal(text[i])
         IN  IntAcc(text, i + 1, j, IF v >= IntCap THEN IntCap ELSE v)

\* int(text[i..j]) for a run of digits
IntOf(text, i, j) == IntAcc(text, i, j, 0)

\* kw occurs in text at position i
OccursAt(text, i, kw) ==
    /\ i >= 1
    /\ i + Len(kw) - 1 <= Len(text)
    /\ \A j \in 1..Len(kw) : text[i + j - 1] = kw[j]

\* Python's `kw in text`
Contains(text, kw) == \E i \in 1..(Len(text) + 1) : OccursAt(text, i, kw)

RECURSIVE RunEnd(_, _)
\* last index of the maximal run of digits that starts at i (i - 1 if none)
RunEnd(text, i) ==
    IF i <= Len(text) /\ text[i] \in Digits THEN RunEnd(text, i + 1) ELSE i - 1

\* the regular expression  pre(\d+)suf  matches at position i: \d+ is greedy
\* and, suf never starting with a digit, takes the whole run
NumMatchAt(text, i, pre, suf) ==
    /\ OccursAt(text, i, pre)
    /\ RunEnd(text, i + Len(pre)) >= i + Len(pre)
    /\ OccursAt(text, RunEnd(text, i + Len(pre)) + 1, suf)

\* re.search(pre(\d+)suf, text): <<>> when there is no match, else
\* <<int(m.group(1))>> of the leftmost match
SearchNum(text, pre, suf) ==
    LET hits == {i \in 1..Len(text) : NumMatchAt(text, i, pre, suf)}
    IN  IF hits = {} THEN <<>>
        ELSE LET i == CHOOSE h \in hits : \A g \in hits : h <= g
                 b == i + Len(pre)
             IN  <<IntOf(text, b, RunEnd(text, b))>>

(***************************************************************************)
(* QueryParser tables, in declaration order (dict order is the order of    *)
(* iteration).  Atoms: kako = 'past', nichi = 'day', kan = 'span',         *)
(* kon = 'this', sen = 'last', shuu = 'week', getsu = 'month'.             *)
(***************************************************************************)
PERIOD_PATTERNS == <<
    [re |-> "num", pre |-> <<"kako">>, suf |-> <<"nichi", "kan">>, type |-> "days", value |-> 0],
    [re |-> "num", pre |-> <<"kako">>, suf |-> <<"nichi">>,        type |-> "days", value |-> 0],
    [re |-> "num", pre |-> <<>>,       suf |-> <<"nichi", "kan">>, type |-> "days", value |-> 0],
    [re |-> "num", pre |-> <<>>,       suf |-> <<"nichi">>,        type |-> "days", value |-> 0],
    [re |-> "lit", kw |-> <<"kon", "shuu">>,  type |-> "week",  value |-> "current"],
    [re |-> "lit", kw |-> <<"sen", "shuu">>,  type |-> "week",  value |-> "previous"],
    [re |-> "lit", kw |-> <<"kon", "getsu">>, type |-> "month", value |-> "current"],
    [re |-> "lit", kw |-> <<"sen", "getsu">>, type |-> "month", value |-> "previous"],
    [re |-> "lit", kw |-> <<"kako", "3", "0", "nichi", "kan">>, type |-> "days", value |-> 30],
    [re |-> "lit", kw |-> <<"kako", "7", "nichi", "kan">>,      type |-> "days", value |-> 7],
    [re |-> "lit", kw |-> <<"kako", "9", "0", "nichi", "kan">>, type |-> "days", value |-> 90] >>

\* re.search(pattern, query): <<>> when there is no match, else the value
\* the handler reads from the match (group 1 as an int, or none)
PatternSearch(p, text) ==
    IF p.re = "num" THEN SearchNum(text, p.pre, p.suf)
    ELSE IF Contains(text, p.kw) THEN <<p.value>> ELSE <<>>

\* a day count taken as it stands, with no floor of 1
MaxNoClamp(a, b) == b

Max(a, b) == IF a >= b THEN a ELSE b

\* date arithmetic on a result: an exception raised earlier propagates
Minus(d, k) == IF ~d.ok THEN d ELSE DateMinusDays(d.v, k)

Day1(d) == IF ~d.ok THEN d ELSE Ok(ReplaceDay1(d.v))

\* (start_date.strftime('%Y-%m-%d'), end_date.strftime('%Y-%m-%d'))
FormatPeriod(s, e) ==
    IF ~s.ok THEN s
    ELSE IF ~e.ok THEN e
    ELSE Ok(<<Strftime(s.v), Strftime(e.v)>>)

\* period_type == 'days'
DaysPeriod(value, today) ==
    LET days == Max(1, value)
    IN  FormatPeriod(Minus(Ok(today), days - 1), Ok(today))

\* the week computed with isoweekday() (Monday = 1) in place of weekday()
WeekPeriodIso(value, today) ==
    LET days_since_monday == Weekday(today) + 1 IN
    IF value = "current"
    THEN FormatPeriod(Minus(Ok(today), days_since_monday), Ok(today))
    ELSE LET end_date == Minus(Ok(today), days_since_monday + 1)
         IN  FormatPeriod(Minus(end_date, 6), end_date)

\* period_type == 'week'
WeekPeriod(value, today) ==
    LET days_since_monday == Weekday(today) IN
    IF value = "current"
    THEN FormatPeriod(Minus(Ok(today), days_since_monday), Ok(today))
    ELSE LET end_date == Minus(Ok(today), days_since_monday + 1)
         IN  FormatPeriod(Minus(end_date, 6), end_date)

\* the previous month taken as the 30 days before the first of this month
MonthPeriod30(value, today) ==
    IF value = "current"
    THEN FormatPeriod(Day1(Ok(today)), Ok(today))
    ELSE LET first_of_this_month == Day1(Ok(today))
             last_of_previous_month == Minus(first_of_this_month, 1)
         IN  FormatPeriod(Minus(last_of_previous_month, 29), last_of_previous_month)

\* period_type == 'month'
MonthPeriod(value, today) ==
    IF value = "current"
    THEN FormatPeriod(Day1(Ok(today)), Ok(today))
    ELSE LET first_of_this_month == Day1(Ok(today))
             last_of_previous_month == Minus(first_of_this_month, 1)
         IN  FormatPeriod(Day1(last_of_previous_month), last_of_previous_month)

\* the body of the loop of parse_period for the pattern that matched, with
\* the value its handler returned
PeriodFor(p, value, today) ==
    IF p.type = "days" THEN DaysPeriod(value, today)
    ELSE IF p.type = "week" THEN WeekPeriod(value, today)
    ELSE MonthPeriod(value, today)

\* the default after the loop: the last 7 days
DefaultPeriod(today) == FormatPeriod(Minus(Ok(today), 6), Ok(today))

RECURSIVE PeriodLoop(_, _, _)
PeriodLoop(i, text, today) ==
    IF i > Len(PERIOD_PATTERNS)
    THEN DefaultPeriod(today)
    ELSE LET match == PatternSearch(PERIOD_PATTERNS[i], text)
         IN  IF match # <<>>
             THEN PeriodFor(PERIOD_PATTERNS[i], match[1], today)
             ELSE PeriodLoop(i + 1, text, today)

\* QueryParser.parse_period, with today = datetime.now().date()
parse_period(text, today) == PeriodLoop(1, text, today)

(***************************************************************************)
(* Keyword tables.  Atoms: session, suu = 'count', user, page, view, PV,   *)
(* chokkiritsu = 'bounce rate', heikin = 'average', jikan = 'time',        *)
(* conversion, event, ryuunyuumoto = 'traffic origin', source, channel,    *)
(* device, chiiki = 'region', browser, UTM, campaign, top, joui = 'upper', *)
(* worst, kai = 'lower', hikaku / kurabe / taihi = 'compare'.              *)
(***************************************************************************)
\* the table with the keys of the session duration declared before the
\* keys of the sessions
METRIC_KEYWORDS_duration_first == <<
    [k |-> <<"heikin", "session", "jikan">>, v |-> "averageSessionDuration"],
    [k |-> <<"session", "jikan">>,           v |-> "averageSessionDuration"],
    [k |-> <<"session", "suu">>,             v |-> "sessions"],
    [k |-> <<"session">>,                    v |-> "sessions"],
    [k |-> <<"user", "suu">>,                v |-> "totalUsers"],
    [k |-> <<"user">>,                       v |-> "totalUsers"],
    [k |-> <<"page", "view">>,               v |-> "screenPageViews"],
    [k |-> <<"PV">>,                         v |-> "screenPageViews"],
    [k |-> <<"chokkiritsu">>,                v |-> "bounceRate"],
    [k |-> <<"conversion", "suu">>,          v |-> "conversions"],
    [k |-> <<"conversion">>,                 v |-> "conversions"],
    [k |-> <<"event", "suu">>,               v |-> "eventCount"],
    [k |-> <<"event">>,                      v |-> "eventCount"] >>

METRIC_KEYWORDS == <<
    [k |-> <<"session", "suu">>,             v |-> "sessions"],
    [k |-> <<"session">>,                    v |-> "sessions"],
    [k |-> <<"user", "suu">>,                v |-> "totalUsers"],
    [k |-> <<"user">>,                       v |-> "totalUsers"],
    [k |-> <<"page", "view">>,               v |-> "screenPageViews"],
    [k |-> <<"PV">>,                         v |-> "screenPageViews"],
    [k |-> <<"chokkiritsu">>,                v |-> "bounceRate"],
    [k |-> <<"heikin", "session", "jikan">>, v |-> "averageSessionDuration"],
    [k |-> <<"session", "jikan">>,           v |-> "averageSessionDuration"],
    [k |-> <<"conversion", "suu">>,          v |-> "conversions"],
    [k |-> <<"conversion">>,                 v |-> "conversions"],
    [k |-> <<"event", "suu">>,               v |-> "eventCount"],
    [k |-> <<"event">>,                      v |-> "eventCount"] >>

\* the table with no key for the page dimension
DIMENSION_KEYWORDS_without_page == <<
    [k |-> <<"ryuunyuumoto">>, v |-> "sessionSource"],
    [k |-> <<"source">>,       v |-> "sessionSource"],
    [k |-> <<"channel">>,      v |-> "sessionDefaultChannelGroup"],
    [k |-> <<"device">>,       v |-> "deviceCategory"],
    [k |-> <<"chiiki">>,       v |-> "country"],
    [k |-> <<"browser">>,      v |-> "browser"],
    [k |-> <<"UTM">>,          v |-> "sessionCampaignName"],
    [k |-> <<"campaign">>,     v |-> "sessionCampaignName"] >>

DIMENSION_KEYWORDS == <<
    [k |-> <<"ryuunyuumoto">>, v |-> "sessionSource"],
    [k |-> <<"source">>,       v |-> "sessionSource"],
    [k |-> <<"channel">>,      v |-> "sessionDefaultChannelGroup"],
    [k |-> <<"device">>,       v |-> "deviceCategory"],
    [k |-> <<"page">>,         v |-> "pagePath"],
    [k |-> <<"chiiki">>,       v |-> "country"],
    [k |-> <<"browser">>,      v |-> "browser"],
    [k |-> <<"UTM">>,          v |-> "sessionCampaignName"],
    [k |-> <<"campaign">>,     v |-> "sessionCampaignName"] >>

\* the handler of 'worst' and 'lower' returns the tuple (-N, True)
RANKING_KEYWORDS == <<
    [pre |-> <<"top">>,   tuple |-> FALSE],
    [pre |-> <<"joui">>,  tuple |-> FALSE],
    [pre |-> <<"worst">>, tuple |-> TRUE],
    [pre |-> <<"kai">>,   tuple |-> TRUE] >>

COMPARISON_KEYWORDS == << <<"hikaku">>, <<"kurabe">>, <<"taihi">> >>

RECURSIVE FirstKeyword(_, _, _)
\* for keyword, value in table.items(): if keyword in query: return value
FirstKeyword(table, i, text) ==
    IF i > Len(table) THEN None
    ELSE IF Contains(text, table[i].k) THEN table[i].v
    ELSE FirstKeyword(table, i + 1, text)

RECURSIVE LastMetric(_, _)
\* the metric of the key declared last among those in the text
LastMetric(i, text) ==
    IF i < 1 THEN None
    ELSE IF Contains(text, METRIC_KEYWORDS[i].k) THEN METRIC_KEYWORDS[i].v
    ELSE LastMetric(i - 1, text)

parse_metric_last(text) == LastMetric(Len(METRIC_KEYWORDS), text)

parse_metric(text) == FirstKeyword(METRIC_KEYWORDS, 1, text)

parse_dimension(text) == FirstKeyword(DIMENSION_KEYWORDS, 1, text)

Abs(n) == IF n < 0 THEN -n ELSE n

RECURSIVE SignedRankingLoop(_, _)
\* 'worst' and 'lower' keeping the sign of their handlers
SignedRankingLoop(i, text) ==
    IF i > Len(RANKING_KEYWORDS) THEN <<>>
    ELSE LET m == SearchNum(text, RANKING_KEYWORDS[i].pre, <<>>) IN
         IF m # <<>>
         THEN IF RANKING_KEYWORDS[i].tuple THEN <<-m[1]>> ELSE m
         ELSE SignedRankingLoop(i + 1, text)

parse_ranking_signed(text) == SignedRankingLoop(1, text)

RECURSIVE RankingLoop(_, _)
RankingLoop(i, text) ==
    IF i > Len(RANKING_KEYWORDS) THEN <<>>
    ELSE LET m == SearchNum(text, RANKING_KEYWORDS[i].pre, <<>>) IN
         IF m # <<>>
         THEN IF RANKING_KEYWORDS[i].tuple
              THEN <<Abs(-m[1])>>
              ELSE m
         ELSE RankingLoop(i + 1, text)

\* QueryParser.parse_ranking: <<>> is None, <<n>> the int n
parse_ranking(text) == RankingLoop(1, text)

parse_comparison(text) ==
    \E i \in 1..Len(COMPARISON_KEYWORDS) : Contains(text, COMPARISON_KEYWORDS[i])

\* QueryParser.parse_query: the dict, or the exception parse_period raised
parse_query(text, today) ==
    LET period == parse_period(text, today) IN
    IF ~period.ok THEN period
    ELSE Ok([period         |-> period.v,
             metric         |-> parse_metric(text),
             dimension      |-> parse_dimension(text),
             ranking        |-> parse_ranking(text),
             comparison     |-> parse_comparison(text),
             original_query |-> text])

\* QueryParser.is_valid_query
\* a period is <<>> for None, else <<start_date, end_date>>
is_valid_query(parsed) == parsed.period # <<>>

\* truth value of an Optional[int]: None and 0 are false
TruthyInt(r) == r # <<>> /\ r[1] # 0

\* truth value of an Optional[str] (no table holds an empty string)
TruthyStr(s) == s # None

\* the classification with the dimension and metric tested before the ranking
get_query_type_dimension_first(parsed) ==
    IF parsed.comparison THEN "comparison"
    ELSE IF TruthyStr(parsed.dimension) /\ TruthyStr(parsed.metric) THEN "dimension_metric"
    ELSE IF TruthyInt(parsed.ranking) THEN "ranking"
    ELSE IF TruthyStr(parsed.metric) THEN "metric_only"
    ELSE "general"

\* QueryParser.get_query_type
get_query_type(parsed) ==
    IF parsed.comparison THEN "comparison"
    ELSE IF TruthyInt(parsed.ranking) THEN "ranking"
    ELSE IF TruthyStr(parsed.dimension) /\ TruthyStr(parsed.metric) THEN "dimension_metric"
    ELSE IF TruthyStr(parsed.metric) THEN "metric_only"
    ELSE "general"

(***************************************************************************)
(* Inputs.  A text is built from at most MaxPhrases phrases; a phrase is   *)
(* written in atoms.  betsu = 'by', no = 'of'.                             *)
(***************************************************************************)
MaxPhrases == 2

Phrases == {
    <<"kako">>,
    <<"3">>,
    <<"7", "nichi", "kan">>,
    <<"0", "nichi">>,
    <<"kako", "0", "nichi", "kan">>,
    <<"kako", "3", "0", "nichi", "kan">>,
    <<"kako", "1", "0", "0", "0", "0", "0", "0", "nichi", "kan">>,
    <<"kon", "shuu">>,
    <<"sen", "shuu">>,
    <<"kon", "getsu">>,
    <<"sen", "getsu">>,
    <<"top", "5">>,
    <<"top", "0">>,
    <<"worst">>,
    <<"hikaku">>,
    <<"session", "suu">>,
    <<"page", "view">>,
    <<"ryuunyuumoto", "betsu", "session", "suu">> }

RECURSIVE TextsOf(_, _)
TextsOf(phrases, n) ==
    IF n = 0 THEN {<<>>}
    ELSE LET T == TextsOf(phrases, n - 1)
         IN  T \cup {t \o p : t \in T, p \in phrases}

Texts == TextsOf(Phrases, MaxPhrases)

\* values of datetime.now().date(): a whole week across a month boundary,
\* days whose previous month has 28, 29, 30 and 31 days, January, a leap day
Todays == {Ymd2Ord(2026, 10, 25 + i) : i \in 1..6} \cup
          {Ymd2Ord(2026, 11, 1), Ymd2Ord(2024, 3, 15), Ymd2Ord(2025, 3, 31),
           Ymd2Ord(2025, 1, 1), Ymd2Ord(2025, 1, 15), Ymd2Ord(2025, 5, 31),
           Ymd2Ord(2025, 12, 31), Ymd2Ord(2024, 2, 29)}

NotCalled == Raise("not called")

VARIABLES
    query,       \* the text of the query
    today,       \* datetime.now().date() during the call
    parsed,      \* result of QueryParser.parse_query
    valid,       \* result of QueryParser.is_valid_query
    query_type,  \* result of QueryParser.get_query_type
    pc,          \* position in the pipeline
    has_history,    \* 'chat_history' in st.session_state
    chat_history,   \* st.session_state.chat_history
    site_scope,     \* the site_scope argument of the last turn
    sidebar,        \* the start_date and end_date arguments of the last turn
    detected_event, \* result of _detect_event_from_query in the last turn
    prev_period,    \* result of _calculate_previous_period in the last turn
    calls,          \* the collaborator calls of the last turn, in order
    branch,         \* the branch of render_chat_view that built the reply
    raised,         \* the exception the try block raised in the last turn
    args,           \* the arguments of a function applied on its own
    result          \* what the functions applied to args returned

parser_vars == <<query, today, parsed, valid, query_type, pc>>
chat_vars == <<has_history, chat_history, site_scope, sidebar, detected_event,
               prev_period, calls, branch, raised>>
fn_vars == <<args, result>>
vars == <<parser_vars, chat_vars, fn_vars>>

(***************************************************************************)
(* The parser applied to one text: parse_query, then is_valid_query and    *)
(* get_query_type on its result (chat_view.py lines 122-134).              *)
(***************************************************************************)
InitParser ==
    /\ query \in Texts
    /\ today \in Todays
    /\ parsed = NotCalled
    /\ valid = FALSE
    /\ query_type = None
    /\ pc = "start"
    /\ has_history = FALSE
    /\ chat_history = <<>>
    /\ site_scope = None
    /\ sidebar = <<>>
    /\ detected_event = None
    /\ prev_period = NotCalled
    /\ calls = <<>>
    /\ branch = None
    /\ raised = None
    /\ args = <<>>
    /\ result = <<>>

ParseQuery ==
    /\ pc = "start"
    /\ parsed' = parse_query(query, today)
    /\ pc' = IF parsed'.ok THEN "parsed" ELSE "raised"
    /\ UNCHANGED <<query, today, valid, query_type, chat_vars, fn_vars>>

Classify ==
    /\ pc = "parsed"
    /\ valid' = is_valid_query(parsed.v)
    /\ query_type' = get_query_type(parsed.v)
    /\ pc' = "classified"
    /\ UNCHANGED <<query, today, parsed, chat_vars, fn_vars>>

NextParser == ParseQuery \/ Classify

SpecParser == InitParser /\ [][NextParser]_vars

(***************************************************************************)
(* Properties of the parser.  What a text asks for is stated here from the *)
(* text itself, and dates are read back from the strings with strptime.    *)
(***************************************************************************)
Parsed == pc \in {"parsed", "classified"}
Returned == pc \in {"parsed", "raised", "classified"}

period_start == Strptime(parsed.v.period[1])
period_end == Strptime(parsed.v.period[2])

\* a run of digits immediately followed by 'day'
HasDayCount(text) ==
    \E i \in 1..(Len(text) - 1) : text[i] \in Digits /\ text[i + 1] = "nichi"

\* the numbers that stand immediately before 'day' in the text
DayCounts(text) ==
    {IntOf(text, i, RunEnd(text, i)) :
        i \in {j \in 1..Len(text) :
                 /\ text[j] \in Digits
                 /\ (j = 1 \/ text[j - 1] \notin Digits)
                 /\ RunEnd(text, j) < Len(text)
                 /\ text[RunEnd(text, j) + 1] = "nichi"}}

ThisWeek == <<"kon", "shuu">>
LastWeek == <<"sen", "shuu">>
ThisMonth == <<"kon", "getsu">>
LastMonth == <<"sen", "getsu">>

\* the class of period the text asks for, by the order of the classes
AskedClass(text) ==
    IF HasDayCount(text) THEN "days"
    ELSE IF Contains(text, ThisWeek) THEN "this week"
    ELSE IF Contains(text, LastWeek) THEN "last week"
    ELSE IF Contains(text, ThisMonth) THEN "this month"
    ELSE IF Contains(text, LastMonth) THEN "last month"
    ELSE "none"

\* 2026-11-02 is a Monday
IsMonday(ord) == (ord - Ymd2Ord(2026, 11, 2)) % 7 = 0
IsSunday(ord) == IsMonday(ord + 1)

\* the Monday of the week of a day
MondayOf(ord) == CHOOSE m \in (ord - 6)..ord : IsMonday(m)

\* the calendar month before the month of a day, as <<year, month>>
PreviousMonth(ord) ==
    LET t == Ord2Ymd(ord)
    IN  IF t[2] = 1 THEN <<t[1] - 1, 12>> ELSE <<t[1], t[2] - 1>>

IsThisWeek == period_start = MondayOf(today) /\ period_end = today
IsLastWeek == period_start = MondayOf(today) - 7 /\ period_end = MondayOf(today) - 1
IsThisMonth ==
    /\ parsed.v.period[1] = <<Ord2Ymd(today)[1], Ord2Ymd(today)[2], 1>>
    /\ period_end = today
IsLastMonth ==
    /\ parsed.v.period[1] = <<PreviousMonth(today)[1], PreviousMonth(today)[2], 1>>
    /\ <<parsed.v.period[2][1], parsed.v.period[2][2]>> = PreviousMonth(today)
    /\ period_end + 1 = Ymd2Ord(Ord2Ymd(today)[1], Ord2Ymd(today)[2], 1)

\* C1: parse_period returns a (start, end) pair for every text and never
\* None or an exception; with no period pattern in the text the pair is
\* (today - 6 days, today); is_valid_query is true of every parse_query result.
C1_ParsePeriodTotal ==
    /\ Returned => parsed.ok /\ parsed.v.period # <<>>
    /\ Returned /\ AskedClass(query) = "none" =>
           parsed.ok /\ period_start = today - 6 /\ period_end = today
    /\ pc = "classified" => valid

\* C2: every period parse_period returns, and parse_query stores, has
\* start_date <= end_date.
C2_StartLeqEnd ==
    Returned /\ parsed.ok =>
        DateStrLeq(parsed.v.period[1], parsed.v.period[2])

\* C2 witness: the day count 0 was parsed and gave a one-day period
C2_Witness ==
    /\ Parsed
    /\ SearchNum(query, <<"kako">>, <<"nichi", "kan">>) = <<0>>
    /\ parsed.v.period[1] = parsed.v.period[2]

\* C3: a text with 'past N days' resolves to (today - (N-1) days, today)
\* for every N >= 1, and to (today, today) for N = 0.
C3_PastNDays ==
    LET m == SearchNum(query, <<"kako">>, <<"nichi", "kan">>) IN
    Returned /\ m # <<>> =>
        /\ parsed.ok
        /\ period_end = today
        /\ period_start = (IF m[1] = 0 THEN today ELSE today - (m[1] - 1))

\* C4: the classes are tried in the order day count, this week, last week,
\* this month, last month, and the first class that matches anywhere in the
\* text gives the result: this week wins over last week, and a day count
\* wins over every week and month phrase.
C4_FirstClassWins ==
    Returned =>
        /\ parsed.ok
        /\ AskedClass(query) = "days" =>
               /\ period_end = today
               /\ \E n \in DayCounts(query) :
                      period_start = (IF n = 0 THEN today ELSE today - (n - 1))
        /\ AskedClass(query) = "this week" => IsThisWeek
        /\ AskedClass(query) = "last week" => IsLastWeek
        /\ AskedClass(query) = "this month" => IsThisMonth
        /\ AskedClass(query) = "last month" => IsLastMonth

\* C5: 'last week' resolves to the 7 days from a Monday to the following
\* Sunday that end on the day before the Monday on which 'this week' starts;
\* 'this week' resolves to (Monday of the current week, today).
C5_Weeks ==
    Returned =>
        /\ AskedClass(query) = "last week" =>
               /\ parsed.ok
               /\ IsMonday(period_start)
               /\ IsSunday(period_end)
               /\ period_end - period_start + 1 = 7
               /\ period_end + 1 = MondayOf(today)
        /\ AskedClass(query) = "this week" =>
               /\ parsed.ok
               /\ period_start = MondayOf(today)
               /\ period_end = today

\* C5 witness: 'last week' asked on a Wednesday
C5_Witness ==
    /\ Parsed
    /\ AskedClass(query) = "last week"
    /\ today = MondayOf(today) + 2
    /\ period_end = today - 3

\* C6: 'last month' resolves to (first day, last day) of the previous
\* calendar month, whatever its length and also in January; the range ends on
\* the day before the first day of the current month, where 'this month'
\* starts.
C6_Months ==
    Returned =>
        /\ AskedClass(query) = "last month" =>
               /\ parsed.ok
               /\ IsLastMonth
               /\ parsed.v.period[2][3] \in {28, 29, 30, 31}
        /\ AskedClass(query) = "this month" =>
               /\ parsed.ok
               /\ IsThisMonth

\* C6 witness: 'last month' asked in January
C6_Witness ==
    /\ Parsed
    /\ AskedClass(query) = "last month"
    /\ Ord2Ymd(today)[2] = 1
    /\ parsed.v.period = << <<Ord2Ymd(today)[1] - 1, 12, 1>>,
                            <<Ord2Ymd(today)[1] - 1, 12, 31>> >>

\* C7: get_query_type returns the type of the first rule that holds, in the
\* order comparison flag set, ranking present, dimension and metric present,
\* metric present, general.
C7_QueryTypeOrder ==
    pc = "classified" =>
        query_type =
            (IF parsed.v.comparison THEN "comparison"
             ELSE IF parsed.v.ranking # <<>> THEN "ranking"
             ELSE IF parsed.v.dimension # None /\ parsed.v.metric # None
                  THEN "dimension_metric"
             ELSE IF parsed.v.metric # None THEN "metric_only"
             ELSE "general")

\* C8: with the comparison flag false and a ranking size that is not None,
\* the size 0 included, the query is classified ranking.
C8_RankingNotNone ==
    pc = "classified" /\ ~parsed.v.comparison /\ parsed.v.ranking # <<>> =>
        query_type = "ranking"

(***************************************************************************)
(* The chat view.  Atoms of the event aliases: shiryouseikyuu = 'brochure  *)
(* request', eigyou = 'sales', tokubetsu = 'special', yoyaku = 'booking',  *)
(* counseling, online, seminar, taiken = 'trial', setsumeikai douga =      *)
(* 'briefing video', tani shindan = 'credit check', toi awase / toi i      *)
(* awaseru = 'inquiry' in its two spellings, kaigai = 'overseas'.          *)
(***************************************************************************)
EVENT_ALIAS_MAP == <<
    [k |-> <<"shiryouseikyuu">>,                        v |-> "CV_shiryouseikyuu"],
    [k |-> <<"eigyou", "tokubetsu", "event", "yoyaku">>, v |-> "CV_eigyoutokubetsueventyoyaku"],
    [k |-> <<"tokubetsu", "event", "yoyaku">>,          v |-> "CV_eigyoutokubetsueventyoyaku"],
    [k |-> <<"marketing", "event", "yoyaku">>,          v |-> "CV_marketingeventyoyaku"],
    [k |-> <<"counseling", "yoyaku">>,                  v |-> "CV_counselingyoyaku"],
    [k |-> <<"online", "seminar", "yoyaku">>,           v |-> "CV_onlineseminaryoyaku"],
    [k |-> <<"online", "seminar">>,                     v |-> "CV_onlineseminaryoyaku"],
    [k |-> <<"online", "taiken", "yoyaku">>,            v |-> "CV_onlinetaikenyoyaku"],
    [k |-> <<"online", "taiken">>,                      v |-> "CV_onlinetaikenyoyaku"],
    [k |-> <<"setsumeikai", "douga">>,                  v |-> "CV_setsumeikaidouga"],
    [k |-> <<"tani", "shindan">>,                       v |-> "CV_tanishindan"],
    [k |-> <<"toi", "awase">>,                          v |-> "CV_toiawase"],
    [k |-> <<"toi", "i", "awaseru">>,                   v |-> "CV_toiawase"],
    [k |-> <<"kaigai", "counseling">>,                  v |-> "CV_kaigaicounseling"] >>

RECURSIVE LastKeyword(_, _, _)
\* the value of the last key of the table that occurs in the text
LastKeyword(table, i, text) ==
    IF i < 1 THEN None
    ELSE IF Contains(text, table[i].k) THEN table[i].v
    ELSE LastKeyword(table, i - 1, text)

\* the alias declared last wins
detect_event_last(text) == LastKeyword(EVENT_ALIAS_MAP, Len(EVENT_ALIAS_MAP), text)

\* _detect_event_from_query
detect_event_from_query(text) == FirstKeyword(EVENT_ALIAS_MAP, 1, text)

\* datetime.strptime(s, '%Y-%m-%d'): %Y reads four digits, and strftime
\* printed a year below 1000 with fewer (glibc does not pad %Y)
StrptimeOrRaise(s) ==
    IF s[1] < 1000 THEN Raise("ValueError") ELSE Ok(Strptime(s))

\* _calculate_previous_period of chat_view.py
calculate_previous_period(start_date, end_date) ==
    LET start_dt == StrptimeOrRaise(start_date)
        end_dt   == StrptimeOrRaise(end_date)
    IN  IF ~start_dt.ok THEN start_dt
        ELSE IF ~end_dt.ok THEN end_dt
        ELSE LET period_days == (end_dt.v - start_dt.v) + 1
                 prev_end    == Minus(start_dt, 1)
                 prev_start  == Minus(prev_end, period_days - 1)
             IN  FormatPeriod(prev_start, prev_end)

\* _calculate_previous_period of dashboard_view.py
dashboard_calculate_previous_period(start_date, end_date) ==
    LET start_dt == StrptimeOrRaise(start_date)
        end_dt   == StrptimeOrRaise(end_date)
    IN  IF ~start_dt.ok THEN start_dt
        ELSE IF ~end_dt.ok THEN end_dt
        ELSE LET period_days == (end_dt.v - start_dt.v) + 1
                 prev_end    == Minus(start_dt, 1)
                 prev_start  == Minus(prev_end, period_days - 1)
             IN  FormatPeriod(prev_start, prev_end)

\* a history entry; data is None (present = FALSE) or a dict with the keys
\* 'table' and 'graph' it holds (<<>> for a missing key)
NoData == [present |-> FALSE, table |-> <<>>, graph |-> <<>>]
Data(table, graph) == [present |-> TRUE, table |-> table, graph |-> graph]

\* add_message
add_message(history, role, content, data) ==
    Append(history, [role |-> role, content |-> content, data |-> data])

\* `response_data if response_data else None`
DataOrNone(table, graph) ==
    IF table = <<>> /\ graph = <<>> THEN NoData ELSE Data(table, graph)

Call(fn, start_date, end_date, scope) ==
    [fn |-> fn, start_date |-> start_date, end_date |-> end_date, site_scope |-> scope]

(***************************************************************************)
(* Collaborator results.  GA4Client.run_report catches every exception of  *)
(* the service and returns an empty frame, so a call returns.              *)
(***************************************************************************)
TrafficRows == <<
    [sessionDefaultChannelGroup |-> "Organic Search", sessionSource |-> "google", sessions |-> 10],
    [sessionDefaultChannelGroup |-> "Organic Search", sessionSource |-> "yahoo",  sessions |-> 5],
    [sessionDefaultChannelGroup |-> "Paid Search",    sessionSource |-> "google", sessions |-> 3],
    [sessionDefaultChannelGroup |-> "Referral",       sessionSource |-> "note",   sessions |-> 1] >>

Envs == {
    [current |-> 1000, previous |-> 800,  traffic |-> TrafficRows, rows |-> TRUE,  sessions |-> 1000],
    [current |-> 1000, previous |-> 0,    traffic |-> <<>>,        rows |-> FALSE, sessions |-> 0],
    [current |-> 800,  previous |-> 1000, traffic |-> TrafficRows, rows |-> TRUE,  sessions |-> 1234567] }

\* the columns of the frame each collaborator returns
FrameColumns(fn) ==
    CASE fn = "get_traffic_source" ->
            {"sessionDefaultChannelGroup", "sessionSource", "sessionMedium", "sessions"}
      [] fn = "get_device_data" -> {"deviceCategory", "date", "sessions", "bounceRate"}
      [] fn = "get_utm_data" ->
            {"sessionCampaignName", "sessionSource", "sessionMedium", "sessions", "conversions"}
      [] fn = "get_page_data" ->
            {"pagePath", "sessions", "screenPageViews", "bounceRate", "averageSessionDuration"}

\* source_data.groupby('sessionSource')['sessions'].sum().reset_index():
\* one row per source, in the order of the keys
SourceOrder == <<"google", "note", "yahoo">>

RECURSIVE SumOf(_, _, _)
SumOf(rows, i, key) ==
    IF i > Len(rows) THEN 0
    ELSE (IF rows[i].sessionSource = key THEN rows[i].sessions ELSE 0)
         + SumOf(rows, i + 1, key)

RECURSIVE GroupBySource(_, _)
GroupBySource(rows, i) ==
    IF i > Len(SourceOrder) THEN <<>>
    ELSE IF \E j \in 1..Len(rows) : rows[j].sessionSource = SourceOrder[i]
         THEN <<[sessionSource |-> SourceOrder[i],
                 sessions |-> SumOf(rows, 1, SourceOrder[i])]>>
              \o GroupBySource(rows, i + 1)
         ELSE GroupBySource(rows, i + 1)

RECURSIVE SortDescending(_)
\* sort_values('sessions', ascending=False); the rows here have no ties
SortDescending(rows) ==
    IF rows = <<>> THEN <<>>
    ELSE LET i == CHOOSE k \in 1..Len(rows) :
                      \A j \in 1..Len(rows) : rows[k].sessions >= rows[j].sessions
         IN  <<rows[i]>> \o
             SortDescending(SubSeq(rows, 1, i - 1) \o SubSeq(rows, i + 1, Len(rows)))

\* DataFrame.head(n) for n >= 0
HeadRows(rows, n) == SubSeq(rows, 1, IF n < Len(rows) THEN n ELSE Len(rows))

(***************************************************************************)
(* The branches of render_chat_view.  A branch gives the calls it made, in *)
(* order, and either the reply it built or the exception it raised.        *)
(***************************************************************************)
Reply(calls_, content, data, prev) ==
    [calls |-> calls_, exc |-> None, content |-> content, data |-> data,
     prev |-> prev]
Raised(calls_, exc, prev) ==
    [calls |-> calls_, exc |-> exc, content |-> [kind |-> "none"],
     data |-> NoData, prev |-> prev]

(***************************************************************************)
(* Comparison arithmetic.  Counts are whole numbers; a quotient of two of  *)
(* them is kept exact, as the fraction n/d in lowest terms with d > 0.     *)
(***************************************************************************)
RECURSIVE Gcd(_, _)
Gcd(a, b) == IF b = 0 THEN a ELSE Gcd(b, a % b)

Frac(n, d) ==
    LET g == Gcd(Abs(n), Abs(d))
        s == IF d < 0 THEN -1 ELSE 1
    IN  [n |-> (s * n) \div g, d |-> (s * d) \div g]

\* a / b for b # 0
TrueDiv(a, b) == Frac(a, b)

\* r * k
Times(r, k) == Frac(r.n * k, r.d)

\* the literal 0 as a value of a percentage
Zero == Frac(0, 1)

\* the change set against the current value in place of the previous one
calculate_comparison_by_current(current, previous) ==
    IF previous = 0
    THEN [change |-> current, change_percent |-> Zero, is_positive |-> current >= 0]
    ELSE LET change == current - previous
             change_percent ==
                 IF current = 0 THEN Zero ELSE Times(TrueDiv(change, current), 100)
         IN  [change |-> change, change_percent |-> change_percent,
              is_positive |-> change >= 0]

\* DataProcessor.calculate_comparison
calculate_comparison(current, previous) ==
    IF previous = 0
    THEN [change |-> current, change_percent |-> Zero, is_positive |-> current >= 0]
    ELSE LET change == current - previous
             change_percent == Times(TrueDiv(change, previous), 100)
         IN  [change |-> change, change_percent |-> change_percent,
              is_positive |-> change >= 0]

\* the difference set against the current count
event_comparison_by_current(current_value, previous_value) ==
    LET diff == current_value - previous_value
        diff_percent == IF previous_value # 0 /\ current_value # 0
                        THEN Times(TrueDiv(diff, current_value), 100)
                        ELSE Zero
    IN  [diff |-> diff, diff_percent |-> diff_percent]

\* lines 151-152 of render_chat_view
event_comparison(current_value, previous_value) ==
    LET diff == current_value - previous_value
        diff_percent == IF previous_value # 0
                        THEN Times(TrueDiv(diff, previous_value), 100)
                        ELSE Zero
    IN  [diff |-> diff, diff_percent |-> diff_percent]

\* f"{x:.1f}": the sign and the tenths of x rounded to one decimal, a tie
\* going to the even digit
OneDecimal(x) ==
    LET m   == Abs(x.n) * 10
        q   == m \div x.d
        rem == m - q * x.d
        up  == 2 * rem > x.d \/ (2 * rem = x.d /\ q % 2 = 1)
    IN  [neg |-> x.n < 0, tenths |-> IF up THEN q + 1 ELSE q]

\* lines 140-178: the query names an event
EventBranch(event, start_date, end_date, scope, env) ==
    LET c1   == Call("get_event_counts_by_names", start_date, end_date, scope)
        prev == calculate_previous_period(start_date, end_date)
    IN  IF ~prev.ok THEN Raised(<<c1>>, prev.exc, prev)
        ELSE
        LET c2   == Call("get_event_counts_by_names", prev.v[1], prev.v[2], scope)
            current_value  == env.current
            previous_value == env.previous
            cmp  == event_comparison(current_value, previous_value)
            diff == cmp.diff
            compare ==
                IF previous_value # 0
                THEN <<[prev_start |-> prev.v[1], prev_end |-> prev.v[2],
                        previous |-> previous_value,
                        sign |-> IF diff >= 0 THEN "+" ELSE "",
                        diff |-> diff,
                        percent |-> OneDecimal(cmp.diff_percent)]>>
                ELSE <<>>
            table == << [period |-> <<start_date, end_date>>, count |-> current_value],
                        [period |-> prev.v, count |-> previous_value] >>
        IN  Reply(<<c1, c2>>,
                  [kind |-> "event", event |-> event,
                   start_date |-> start_date, end_date |-> end_date,
                   current |-> current_value, compare |-> compare],
                  Data(<<table>>, <<>>), prev)

\* lines 180-197: metric_labels is no name of chat_view.py, so the branch
\* raises NameError after its call
MetricOnlyBranch(p, start_date, end_date, scope, env) ==
    Raised(<<Call("get_overview_metrics", start_date, end_date, scope)>>,
           "NameError: metric_labels", NotCalled)

\* the collaborator of a dimension, None when the dimension has no handler
DimensionHandler(dimension) ==
    CASE dimension = "sessionSource" -> "get_traffic_source"
      [] dimension = "sessionDefaultChannelGroup" -> "get_traffic_source"
      [] dimension = "deviceCategory" -> "get_device_data"
      [] dimension = "sessionCampaignName" -> "get_utm_data"
      [] dimension = "pagePath" -> "get_page_data"
      [] OTHER -> None

\* lines 199-347: with a frame that has rows, aggregate_metric reaches
\* non_sum_metrics (line 208) when the metric is a column, and the reply for
\* a metric that is no column reaches metric_labels (line 231); neither is
\* a name of chat_view.py
DimensionMetricBranch(p, start_date, end_date, scope, env) ==
    LET fn == DimensionHandler(p.dimension) IN
    IF fn = None
    THEN Reply(<<>>, [kind |-> "dimension_unsupported", dimension |-> p.dimension],
               NoData, NotCalled)
    ELSE LET c == <<Call(fn, start_date, end_date, scope)>>
             empty == IF fn = "get_traffic_source" THEN env.traffic = <<>>
                      ELSE ~env.rows
         IN  IF empty
             THEN Reply(c, [kind |-> "no_data"], NoData, NotCalled)
             ELSE IF p.metric \in FrameColumns(fn)
                  THEN Raised(c, "NameError: non_sum_metrics", NotCalled)
                  ELSE Raised(c, "NameError: metric_labels", NotCalled)

\* lines 349-378
RankingBranch(p, start_date, end_date, scope, env) ==
    LET ranking == p.ranking[1] IN
    IF p.dimension = "sessionSource" \/ ~TruthyStr(p.dimension)
    THEN LET c == <<Call("get_traffic_source", start_date, end_date, scope)>> IN
         IF env.traffic # <<>>
         THEN LET source_summary ==
                      HeadRows(SortDescending(GroupBySource(env.traffic, 1)), ranking)
              IN  Reply(c, [kind |-> "ranking", size |-> ranking],
                        Data(<<source_summary>>, <<"bar_chart">>), NotCalled)
         ELSE Reply(c, [kind |-> "no_data"], NoData, NotCalled)
    ELSE Reply(<<>>, [kind |-> "ranking_unsupported"], NoData, NotCalled)

\* lines 380-382
ComparisonBranch == Reply(<<>>, [kind |-> "comparison_in_development"], NoData, NotCalled)

\* lines 384-406
GeneralBranch(p, start_date, end_date, scope, env) ==
    LET c == <<Call("get_overview_metrics", start_date, end_date, scope),
               Call("get_daily_traffic", start_date, end_date, scope)>>
        content == [kind |-> "overview", start_date |-> start_date,
                    end_date |-> end_date]
    IN  IF env.rows
        THEN Reply(c, content,
                   Data(<<[sessions |-> env.sessions]>>, <<"line_chart">>), NotCalled)
        ELSE Reply(c, content, NoData, NotCalled)

\* the branch of the try block that runs (lines 140, 180, 199, 349, 380, 384)
BranchOf(event, type) == IF event # None THEN "event" ELSE type

\* the period named by the sidebar in place of the one of the query
sidebar_period(p, start_date, end_date) == <<start_date, end_date>>

\* lines 129-131: query_start_date and query_end_date come from the parsed
\* query; the start_date and end_date parameters of render_chat_view are
\* not read
query_period(p, start_date, end_date) == p.period

\* lines 139-410: the try block
TryBlock(event, type, p, period, scope, env) ==
    LET start_date == period[1]
        end_date   == period[2]
        b          == BranchOf(event, type)
    IN  CASE b = "event" -> EventBranch(event, start_date, end_date, scope, env)
          [] b = "metric_only" -> MetricOnlyBranch(p, start_date, end_date, scope, env)
          [] b = "dimension_metric" ->
                 DimensionMetricBranch(p, start_date, end_date, scope, env)
          [] b = "ranking" -> RankingBranch(p, start_date, end_date, scope, env)
          [] b = "comparison" -> ComparisonBranch
          [] OTHER -> GeneralBranch(p, start_date, end_date, scope, env)

\* a handler that passes on response_data as the branch left it
FinishTurnPassingData(history, r) ==
    IF r.exc = None
    THEN add_message(history, "assistant", r.content, r.data)
    ELSE add_message(history, "assistant", [kind |-> "error", reason |-> r.exc],
                     Data(r.data.table, r.data.graph))

\* an `except` clause that swallows the exception and appends nothing
FinishTurnSilent(history, r) ==
    IF r.exc = None
    THEN add_message(history, "assistant", r.content, r.data)
    ELSE history

\* lines 408-415: the reply of the branch, or the reply of the handler of
\* `except Exception`; st.rerun() ends the run either way
FinishTurn(history, r) ==
    IF r.exc = None
    THEN add_message(history, "assistant", r.content, r.data)
    ELSE add_message(history, "assistant", [kind |-> "error", reason |-> r.exc], NoData)

(***************************************************************************)
(* The session: one run of the script per action.                          *)
(***************************************************************************)
MaxTurns == 2

\* the queries submitted in the chat
P_shiryou   == <<"shiryouseikyuu">>
P_past7     == <<"kako", "7", "nichi", "kan">>
P_past400k  == <<"kako", "4", "0", "0", "0", "0", "0", "nichi", "kan">>
P_past1M    == <<"kako", "1", "0", "0", "0", "0", "0", "0", "nichi", "kan">>
P_sessions  == <<"session", "suu">>
P_bysource  == <<"ryuunyuumoto", "betsu">>
P_top5      == <<"top", "5">>
P_top0      == <<"top", "0">>
P_compare   == <<"hikaku">>
P_region    == <<"chiiki", "betsu">>
P_users     == <<"user", "suu">>
P_bounce    == <<"chokkiritsu">>
P_channel   == <<"channel", "betsu">>

ChatQueries == {
    P_shiryou,
    P_past7 \o P_shiryou,
    P_shiryou \o P_sessions,
    P_shiryou \o P_bysource \o P_sessions,
    P_shiryou \o P_top5,
    P_shiryou \o P_compare,
    P_past400k \o P_shiryou,
    P_past1M \o P_shiryou,
    P_past7,
    P_past7 \o P_sessions,
    P_bysource \o P_sessions,
    P_region \o P_sessions,
    P_bysource \o P_top5,
    P_sessions \o P_compare,
    P_bysource \o P_users,
    P_bounce \o P_top5,
    P_channel \o P_top5,
    P_past1M \o P_compare,
    P_bysource \o P_sessions \o P_top0,
    P_bysource \o P_sessions \o P_top5 }

SessionTodays == {Ymd2Ord(2026, 11, 1)}

SiteScopes == {None, "USCPA"}

\* render_sidebar with a preset chosen: the period it returns
render_sidebar(preset, td) ==
    CASE preset = "past7"      -> FormatPeriod(Minus(Ok(td), 6), Ok(td))
      [] preset = "past30"     -> FormatPeriod(Minus(Ok(td), 29), Ok(td))
      [] preset = "past90"     -> FormatPeriod(Minus(Ok(td), 89), Ok(td))
      [] preset = "this_month" -> FormatPeriod(Day1(Ok(td)), Ok(td))
      [] preset = "last_month" ->
             LET first_of_this_month == Day1(Ok(td))
                 last_of_previous_month == Minus(first_of_this_month, 1)
             IN  FormatPeriod(Day1(last_of_previous_month), last_of_previous_month)

\* the presets chosen in the sidebar
Presets == {"past7", "last_month"}

\* what render_sidebar returns in a run: a preset with each scope, and
\* another preset with one of them
Sidebars == {s \in Presets \X SiteScopes : s[1] = "past7" \/ s[2] # None}

UserCount(history) == Cardinality({i \in 1..Len(history) : history[i].role = "user"})

Init ==
    /\ query = <<>>
    /\ today \in SessionTodays
    /\ parsed = NotCalled
    /\ valid = FALSE
    /\ query_type = None
    /\ pc = "new"
    /\ has_history = FALSE
    /\ chat_history = <<>>
    /\ site_scope = None
    /\ sidebar = <<>>
    /\ detected_event = None
    /\ prev_period = NotCalled
    /\ calls = <<>>
    /\ branch = None
    /\ raised = None
    /\ args = <<>>
    /\ result = <<>>

\* a history emptied at the start of every run
initialize_chat_history_reset(has, history) == <<>>

\* initialize_chat_history
initialize_chat_history(has, history) == IF has THEN history ELSE <<>>

\* a run with no query submitted: render_chat_view up to line 117
Render ==
    /\ pc \in {"new", "rendered", "reran", "uncaught"}
    /\ chat_history' = initialize_chat_history(has_history, chat_history)
    /\ has_history' = TRUE
    /\ pc' = "rendered"
    /\ UNCHANGED <<query, today, parsed, valid, query_type, site_scope, sidebar,
                   detected_event, prev_period, calls, branch, raised, fn_vars>>

\* a run with a query submitted and parse_query raising at line 122: the
\* exception leaves render_chat_view, after the user entry was appended
TurnUncaught(text, td, h1, pq) ==
    \E side \in Sidebars :
        /\ query' = text /\ today' = td
        /\ site_scope' = side[2] /\ sidebar' = render_sidebar(side[1], td).v
        /\ parsed' = pq
        /\ valid' = FALSE /\ query_type' = None
        /\ detected_event' = None /\ prev_period' = NotCalled
        /\ calls' = <<>> /\ branch' = None /\ raised' = None
        /\ chat_history' = h1 /\ has_history' = TRUE
        /\ pc' = "uncaught"
        /\ UNCHANGED fn_vars

\* a run with a query submitted that ends in st.rerun() (lines 122-415)
TurnRerun(text, td, h1, pq) ==
    \E p \in {pq.v} :
    \E type \in {get_query_type(p)}, event \in {detect_event_from_query(text)} :
    \E side \in Sidebars, env \in Envs :
    \E dates \in {render_sidebar(side[1], td).v}, scope \in {side[2]} :
    \E r \in {TryBlock(event, type, p, query_period(p, dates[1], dates[2]), scope, env)} :
        /\ query' = text /\ today' = td /\ site_scope' = scope /\ sidebar' = dates
        /\ parsed' = pq
        /\ valid' = is_valid_query(p)
        /\ query_type' = type
        /\ detected_event' = event
        /\ IF is_valid_query(p)
           THEN /\ prev_period' = r.prev
                /\ calls' = r.calls
                /\ branch' = BranchOf(event, type)
                /\ raised' = r.exc
                /\ chat_history' = FinishTurn(h1, r)
           ELSE /\ prev_period' = NotCalled
                /\ calls' = <<>>
                /\ branch' = None
                /\ raised' = None
                /\ chat_history' =
                       add_message(h1, "assistant", [kind |-> "not_understood"], NoData)
        /\ has_history' = TRUE
        /\ pc' = "reran"
        /\ UNCHANGED fn_vars

\* render_chat_view with user_query set (lines 117-415)
Turn ==
    /\ pc \in {"new", "rendered", "reran", "uncaught"}
    /\ UserCount(chat_history) < MaxTurns
    /\ \E text \in ChatQueries, td \in SessionTodays :
         LET h0 == initialize_chat_history(has_history, chat_history)
         IN  \E h1 \in {add_message(h0, "user", [kind |-> "query", text |-> text], NoData)},
                pq \in {parse_query(text, td)} :
                 IF pq.ok
                 THEN TurnRerun(text, td, h1, pq)
                 ELSE TurnUncaught(text, td, h1, pq)

Next == Render \/ Turn

Spec == Init /\ [][Next]_vars

(***************************************************************************)
(* Claims about a chat turn.                                               *)
(***************************************************************************)
TurnOver == pc \in {"reran", "uncaught"}

HasAlias(text) ==
    \E i \in 1..Len(EVENT_ALIAS_MAP) : Contains(text, EVENT_ALIAS_MAP[i].k)

LastEntry == chat_history[Len(chat_history)]

\* C9: when the query of a turn holds an event alias, the turn ends with the
\* assistant's count answer for that event (current period against previous
\* period), its only calls are the two event-count calls, and no branch of
\* the classifier ran; the branch of the classifier runs only when the query
\* holds no alias.
C9_EventFirst ==
    TurnOver =>
        IF HasAlias(query)
        THEN /\ LastEntry.role = "assistant"
             /\ LastEntry.content.kind = "event"
             /\ LastEntry.content.event = detect_event_from_query(query)
             /\ branch = "event"
             /\ Len(calls) = 2
             /\ \A i \in 1..Len(calls) : calls[i].fn = "get_event_counts_by_names"
        ELSE branch = query_type

\* C10: for the period [start, end] of a turn that asks for the previous
\* period, with L = (end - start) + 1, _calculate_previous_period returns
\* [start - L, start - 1], and the copy of dashboard_view.py returns the same.
C10_PreviousPeriod ==
    (pc = "reran" /\ branch = "event") =>
        LET L == (period_end - period_start) + 1
        IN  /\ prev_period.ok
            /\ Strptime(prev_period.v[1]) = period_start - L
            /\ Strptime(prev_period.v[2]) = period_start - 1
            /\ dashboard_calculate_previous_period(parsed.v.period[1],
                                                   parsed.v.period[2]) = prev_period

(***************************************************************************)
(* The comparison arithmetic applied on its own: calculate_comparison and  *)
(* the computation of the event path, each once, in either order.          *)
(***************************************************************************)
CountRange == 6

\* values of current and previous
Counts == ((0 - CountRange)..CountRange) \cup {50, 100, 120, 800, 1000}

Applied(fn) == fn \in DOMAIN result

InitCompare ==
    /\ query = <<>>
    /\ today \in SessionTodays
    /\ parsed = NotCalled
    /\ valid = FALSE
    /\ query_type = None
    /\ pc = "compare"
    /\ has_history = FALSE
    /\ chat_history = <<>>
    /\ site_scope = None
    /\ sidebar = <<>>
    /\ detected_event = None
    /\ prev_period = NotCalled
    /\ calls = <<>>
    /\ branch = None
    /\ raised = None
    /\ args \in [current : Counts, previous : Counts]
    /\ result = <<>>

CalculateComparison ==
    /\ pc = "compare"
    /\ ~Applied("calculate_comparison")
    /\ result' = result @@ ("calculate_comparison" :>
                                calculate_comparison(args.current, args.previous))
    /\ UNCHANGED <<parser_vars, chat_vars, args>>

EventComparison ==
    /\ pc = "compare"
    /\ ~Applied("event_comparison")
    /\ result' = result @@ ("event_comparison" :>
                                event_comparison(args.current, args.previous))
    /\ UNCHANGED <<parser_vars, chat_vars, args>>

NextCompare == CalculateComparison \/ EventComparison

SpecCompare == InitCompare /\ [][NextCompare]_vars

\* percent is the exact value of delta / previous * 100
IsPercentOf(percent, delta, previous) ==
    percent.d > 0 /\ percent.n * previous = 100 * delta * percent.d

\* C11: for all current and previous, calculate_comparison and the
\* computation of the event path both give delta = current - previous, with
\* delta_percent = delta / previous * 100 when previous # 0 and
\* delta_percent = 0 when previous = 0; (120, 100) gives 20 and 20 percent,
\* (50, 0) gives 50 and 0 percent.
C11_Comparison ==
    pc = "compare" =>
        /\ Applied("calculate_comparison") =>
               LET r == result["calculate_comparison"] IN
               /\ r.change = args.current - args.previous
               /\ IF args.previous # 0
                  THEN IsPercentOf(r.change_percent, r.change, args.previous)
                  ELSE r.change_percent = Zero
               /\ (args.current = 120 /\ args.previous = 100) =>
                      (r.change = 20 /\ r.change_percent = [n |-> 20, d |-> 1])
               /\ (args.current = 50 /\ args.previous = 0) =>
                      (r.change = 50 /\ r.change_percent = [n |-> 0, d |-> 1])
        /\ Applied("event_comparison") =>
               LET e == result["event_comparison"] IN
               /\ e.diff = args.current - args.previous
               /\ IF args.previous # 0
                  THEN IsPercentOf(e.diff_percent, e.diff, args.previous)
                  ELSE e.diff_percent = Zero
               /\ (args.current = 120 /\ args.previous = 100) =>
                      (e.diff = 20 /\ e.diff_percent = [n |-> 20, d |-> 1])
               /\ (args.current = 50 /\ args.previous = 0) =>
                      (e.diff = 50 /\ e.diff_percent = [n |-> 0, d |-> 1])

C11_Witness ==
    /\ pc = "compare"
    /\ args = [current |-> 50, previous |-> 0]
    /\ Applied("calculate_comparison") /\ Applied("event_comparison")
    /\ result["calculate_comparison"].change = 50
    /\ result["event_comparison"].diff_percent = Zero

(***************************************************************************)
(* The lookups over one text, each applied once, in any order:             *)
(* _detect_event_from_query, parse_metric, parse_dimension, parse_ranking  *)
(* and parse_comparison.                                                   *)
(***************************************************************************)
LookupPhrases == {
    <<"no">>,
    <<"shiryouseikyuu">>,
    <<"kaigai", "counseling", "yoyaku">>,
    <<"kaigai", "counseling">>,
    <<"session", "jikan">>,
    <<"heikin", "session", "jikan">>,
    <<"user", "suu">>,
    <<"page", "view">>,
    <<"device">>,
    <<"ryuunyuumoto">>,
    <<"top", "5">>,
    <<"joui", "1", "2">>,
    <<"worst", "3">>,
    <<"kai", "0">>,
    <<"hikaku">> }

LookupTexts == TextsOf(LookupPhrases, MaxPhrases)

InitLookup ==
    /\ query = <<>>
    /\ today \in SessionTodays
    /\ parsed = NotCalled
    /\ valid = FALSE
    /\ query_type = None
    /\ pc = "lookup"
    /\ has_history = FALSE
    /\ chat_history = <<>>
    /\ site_scope = None
    /\ sidebar = <<>>
    /\ detected_event = None
    /\ prev_period = NotCalled
    /\ calls = <<>>
    /\ branch = None
    /\ raised = None
    /\ args \in LookupTexts
    /\ result = <<>>

Apply(fn, value) ==
    /\ pc = "lookup"
    /\ ~Applied(fn)
    /\ result' = result @@ (fn :> value)
    /\ UNCHANGED <<parser_vars, chat_vars, args>>

DetectEvent == Apply("detect_event_from_query", detect_event_from_query(args))

ParseMetric == Apply("parse_metric", parse_metric(args))

ParseDimension == Apply("parse_dimension", parse_dimension(args))

ParseRanking == Apply("parse_ranking", parse_ranking(args))

ParseComparison == Apply("parse_comparison", parse_comparison(args))

NextLookup ==
    DetectEvent \/ ParseMetric \/ ParseDimension \/ ParseRanking \/ ParseComparison

SpecLookup == InitLookup /\ [][NextLookup]_vars

\* the keys of the table that occur in the text, by position in the table
Matching(table, text) == {i \in 1..Len(table) : Contains(text, table[i].k)}

\* the value of the key declared first among those that occur in the text
FirstDeclared(table, text) ==
    IF Matching(table, text) = {} THEN None
    ELSE table[CHOOSE i \in Matching(table, text) :
                   \A j \in Matching(table, text) : i <= j].v

Looked(fn) == pc = "lookup" /\ Applied(fn)

\* C12: _detect_event_from_query returns the event of the alias declared
\* first in EVENT_ALIAS_MAP among those that occur in the text, and None when
\* none occurs; a text with 'kaigai counseling yoyaku' and no alias declared
\* before 'counseling yoyaku' resolves to the counseling booking, not to the
\* overseas counseling declared last.
C12_FirstAlias ==
    Looked("detect_event_from_query") =>
        LET e == result["detect_event_from_query"] IN
        /\ e = FirstDeclared(EVENT_ALIAS_MAP, args)
        /\ (/\ Contains(args, <<"kaigai", "counseling", "yoyaku">>)
            /\ \A i \in 1..4 : ~Contains(args, EVENT_ALIAS_MAP[i].k))
               => e = "CV_counselingyoyaku"

C12_Witness ==
    /\ Looked("detect_event_from_query")
    /\ Contains(args, <<"kaigai", "counseling", "yoyaku">>)
    /\ result["detect_event_from_query"] = "CV_counselingyoyaku"

\* C13: parse_metric returns the value of the key of METRIC_KEYWORDS declared
\* first among those that occur in the text, None when none occurs, and
\* parse_dimension does the same over DIMENSION_KEYWORDS; whichever lookups
\* ran before, each result is the one parse_query stores for the same text.
C13_FirstKeyword ==
    pc = "lookup" =>
        LET pq == parse_query(args, today) IN
        /\ pq.ok
        /\ Applied("parse_metric") =>
               /\ result["parse_metric"] = FirstDeclared(METRIC_KEYWORDS, args)
               /\ result["parse_metric"] = pq.v.metric
        /\ Applied("parse_dimension") =>
               /\ result["parse_dimension"] = FirstDeclared(DIMENSION_KEYWORDS, args)
               /\ result["parse_dimension"] = pq.v.dimension
        /\ Applied("parse_ranking") => result["parse_ranking"] = pq.v.ranking
        /\ Applied("parse_comparison") =>
               result["parse_comparison"] = pq.v.comparison

\* a text with keys of two metrics, the one declared first standing last,
\* looked up after the ranking and the comparison
C13_Witness ==
    /\ pc = "lookup"
    /\ args = <<"page", "view", "session", "jikan">>
    /\ DOMAIN result = {"parse_ranking", "parse_comparison",
                        "parse_metric", "parse_dimension"}
    /\ result["parse_metric"] = "sessions"
    /\ result["parse_dimension"] = "pagePath"

\* the text with 'worst' read as 'top' and 'lower' as 'upper'
AsTop(text) ==
    [i \in 1..Len(text) |->
        IF text[i] = "worst" THEN "top"
        ELSE IF text[i] = "kai" THEN "joui"
        ELSE text[i]]

\* the ranking phrases that occur in the text, by position in the table
RankingMatches(text) ==
    {i \in 1..Len(RANKING_KEYWORDS) :
        SearchNum(text, RANKING_KEYWORDS[i].pre, <<>>) # <<>>}

\* C14: parse_ranking returns N for 'top N' and 'upper N' and also N for
\* 'worst N' and 'lower N': the number of the phrase declared first among
\* those in the text, never negative, the same as for the text with 'worst'
\* and 'lower' read as 'top' and 'upper'; it returns None when the text has
\* no ranking phrase.
C14_RankingMagnitude ==
    Looked("parse_ranking") =>
        LET r == result["parse_ranking"]
            M == RankingMatches(args)
        IN  IF M = {} THEN r = <<>>
            ELSE LET i == CHOOSE k \in M : \A j \in M : k <= j IN
                 /\ r = SearchNum(args, RANKING_KEYWORDS[i].pre, <<>>)
                 /\ r[1] >= 0
                 /\ (M \cap {1, 2} = {}) => r = parse_ranking(AsTop(args))

C14_Witness ==
    /\ Looked("parse_ranking")
    /\ args = <<"worst", "3">>
    /\ result["parse_ranking"] = <<3>>

(***************************************************************************)
(* Claims about the reply of a turn.                                       *)
(***************************************************************************)
\* the turn ran the try block of a query with no alias, of the given type
Dispatched(type) ==
    /\ TurnOver
    /\ ~HasAlias(query)
    /\ parsed.ok
    /\ query_type = type

Replied(kind) == LastEntry.role = "assistant" /\ LastEntry.content.kind = kind

\* C15: for a query with no alias that is classified metric_only, the
\* assistant entry appended to the history is the metric's value (for a
\* count, an integer with thousands separators) and carries no table and no
\* graph.
C15_MetricOnlyValue ==
    Dispatched("metric_only") =>
        /\ Replied("metric_value")
        /\ LastEntry.data = NoData

\* C16: on the event path with current count c and previous count p # 0,
\* the reply states the difference c - p and the percentage
\* (c - p) / p * 100 to one decimal, with '+' before each when c - p >= 0
\* and their own minus sign otherwise; c = 1000 and p = 800 give +200 and
\* +25.0%.
C16_EventDelta ==
    (TurnOver /\ Replied("event")) =>
        LET c == LastEntry.content.current
            p == LastEntry.data.table[1][2].count
            t == LastEntry.content.compare
        IN  p # 0 =>
              /\ t # <<>>
              /\ t[1].diff = c - p
              /\ t[1].sign = (IF c - p >= 0 THEN "+" ELSE "")
              /\ t[1].percent.neg = (c - p < 0)
              \* the tenths are the nearest to |c - p| / |p| * 1000
              /\ 2 * Abs(Abs(c - p) * 1000 - t[1].percent.tenths * Abs(p)) <= Abs(p)
              /\ (c = 1000 /\ p = 800) =>
                     /\ t[1].diff = 200 /\ t[1].sign = "+"
                     /\ t[1].percent = [neg |-> FALSE, tenths |-> 250]

C16_Witness ==
    /\ TurnOver /\ Replied("event")
    /\ LastEntry.content.current = 1000
    /\ LastEntry.content.compare # <<>>
    /\ LastEntry.content.compare[1].previous = 800
    /\ LastEntry.content.compare[1].diff = 200

\* C17: for a dimension_metric query with no ranking size whose dimension
\* has a handler and whose metric is a column of the rows returned, the reply
\* is a table grouped by the dimension, sorted descending and cut to the
\* default size, so of at most 10 rows; with no rows the reply says that
\* there is no data.
C17_DefaultTen ==
    (/\ Dispatched("dimension_metric")
     /\ parsed.v.ranking = <<>>
     /\ DimensionHandler(parsed.v.dimension) # None
     /\ parsed.v.metric \in FrameColumns(DimensionHandler(parsed.v.dimension)))
    => \/ Replied("no_data")
       \/ /\ Replied("dimension_table")
          /\ LastEntry.data.present
          /\ Len(LastEntry.data.table[1]) <= 10

\* C18: for a dimension_metric query whose dimension has no handler, or
\* whose metric is no column of the rows of its handler, the reply is a
\* 'not supported' text (or 'no data' when there are no rows), never the
\* reply of the error handler.
C18_UnsupportedIsText ==
    (/\ Dispatched("dimension_metric")
     /\ (DimensionHandler(parsed.v.dimension) = None
         \/ parsed.v.metric \notin FrameColumns(DimensionHandler(parsed.v.dimension))))
    => /\ ~Replied("error")
       /\ (Replied("dimension_unsupported")
           \/ Replied("metric_unsupported")
           \/ Replied("no_data"))

\* the ranking the code has: sessions (the default metric) over the source
\* or channel dimension (the source being the default)
RankingSupported(p) ==
    /\ p.metric \in {None, "sessions"}
    /\ p.dimension \in {None, "sessionSource", "sessionDefaultChannelGroup"}

\* C19: for a query classified ranking with no alias, the reply is a top-N
\* table only for a count metric over the source or channel dimension; every
\* other combination of metric and dimension gets the 'not yet supported'
\* message.
C19_RankingScope ==
    Dispatched("ranking") =>
        IF RankingSupported(parsed.v)
        THEN ~Replied("error")
        ELSE Replied("ranking_unsupported")

\* C20: for every query with a comparison keyword and no alias, the reply
\* is the fixed 'under development' message with no table and no graph, and
\* the turn makes no collaborator call.
C20_ComparisonPlaceholder ==
    (TurnOver /\ ~HasAlias(query) /\ parse_comparison(query)) =>
        /\ Replied("comparison_in_development")
        /\ LastEntry.data = NoData
        /\ calls = <<>>

(***************************************************************************)
(* Claims about failures, the history and the calls of a turn.             *)
(***************************************************************************)
\* C21: a general query (no alias) always ends in a reply, never an error;
\* the reply carries the overview with its table and graph, and when the
\* daily series is empty the reply is the 'no data' message, never the
\* overview text with no payload.
C21_EmptyIsNoData ==
    Dispatched("general") =>
        /\ ~Replied("error")
        /\ \/ Replied("no_data")
           \/ Replied("overview") /\ LastEntry.data.present

\* the step is a turn whose try block raised
TurnRaised == pc' \in {"reran", "uncaught"} /\ raised' # None

\* the first n entries of the history
Prefix(history, n) == SubSeq(history, 1, n)

\* C22: when a step of the try block of a turn raises, the turn appends
\* the user entry and then exactly one assistant entry, the error message
\* with the reason of the exception and no payload, and leaves the entries
\* before them as they were; a turn that follows a failed one appends its
\* own two entries in the same way, the error entry staying in place.
C22_ErrorCaught ==
    [][/\ TurnRaised =>
            /\ Len(chat_history') = Len(chat_history) + 2
            /\ Prefix(chat_history', Len(chat_history)) = chat_history
            /\ chat_history'[Len(chat_history) + 1] =
                   [role |-> "user", content |-> [kind |-> "query", text |-> query'],
                    data |-> NoData]
            /\ chat_history'[Len(chat_history) + 2] =
                   [role |-> "assistant",
                    content |-> [kind |-> "error", reason |-> raised'],
                    data |-> NoData]
       /\ (raised # None /\ pc' = "reran" /\ chat_history' # chat_history) =>
            /\ Len(chat_history') = Len(chat_history) + 2
            /\ Prefix(chat_history', Len(chat_history)) = chat_history
            /\ chat_history'[Len(chat_history')].role = "assistant"
            /\ (chat_history'[Len(chat_history')].content.kind = "error")
                   = (raised' # None)
      ]_vars

\* a failed turn followed by an ordinary one
C22_Witness ==
    /\ Len(chat_history) = 4
    /\ chat_history[2].content = [kind |-> "error", reason |-> "ValueError"]
    /\ chat_history[4].content.kind = "ranking"
    /\ raised = None

\* C23: the history only grows by appends: in every step the history
\* before the step is a prefix of the history after it, so no entry is
\* removed, reordered or rewritten, and initialize_chat_history leaves a
\* history that exists as it is.
C23_AppendOnly ==
    [][/\ Len(chat_history') >= Len(chat_history)
       /\ Prefix(chat_history', Len(chat_history)) = chat_history
       /\ has_history => initialize_chat_history(has_history, chat_history) = chat_history
      ]_vars

\* a run with no query after two turns: initialize_chat_history met a
\* history of four entries
C23_Witness ==
    /\ pc = "rendered"
    /\ has_history
    /\ Len(chat_history) = 4

\* C24: every turn appends one user entry and then one assistant entry, on
\* every path, so between turns the history has even length and alternates
\* user, assistant, user, assistant, ...
C24_Alternating ==
    /\ Len(chat_history) % 2 = 0
    /\ \A i \in 1..Len(chat_history) :
           chat_history[i].role = (IF i % 2 = 1 THEN "user" ELSE "assistant")

\* C25: a turn makes at most two collaborator calls, all of them before
\* its assistant entry; the event path makes exactly two, the count of the
\* current period and then the count of the previous period.
C25_CallOrder ==
    TurnOver =>
        /\ Len(calls) <= 2
        /\ branch = "event" =>
              /\ Len(calls) = 2
              /\ LastEntry.role = "assistant"
              /\ calls[1].fn = "get_event_counts_by_names"
              /\ <<calls[1].start_date, calls[1].end_date>> = parsed.v.period
              /\ prev_period.ok
              /\ calls[2].fn = "get_event_counts_by_names"
              /\ <<calls[2].start_date, calls[2].end_date>> = prev_period.v

(***************************************************************************)
(* Claims about keys shadowed in the keyword tables.                       *)
(***************************************************************************)
\* C26: parse_metric never returns averageSessionDuration: both keys that
\* map to it hold the key 'session', declared before them, so a text with
\* either of them resolves to sessions, the metric of the first key of the
\* table that occurs in it.
C26_DurationShadowed ==
    Looked("parse_metric") =>
        /\ result["parse_metric"] # "averageSessionDuration"
        /\ (\/ Contains(args, <<"session", "jikan">>)
            \/ Contains(args, <<"heikin", "session", "jikan">>))
               => result["parse_metric"] = "sessions"

C26_Witness ==
    /\ Looked("parse_metric")
    /\ Contains(args, <<"heikin", "session", "jikan">>)
    /\ result["parse_metric"] = "sessions"

\* C27: a text with the metric key 'page view' is never classified
\* metric_only (nor general): the dimension key 'page' occurs in it, so the
\* text has a metric and a dimension, and its type is comparison, ranking
\* or dimension_metric.
C27_PageViewHasDimension ==
    (pc = "classified" /\ Contains(query, <<"page", "view">>)) =>
        /\ TruthyStr(parsed.v.metric)
        /\ TruthyStr(parsed.v.dimension)
        /\ query_type \in {"comparison", "ranking", "dimension_metric"}

\* 'page view' with nothing else: the page views by page
C27_Witness ==
    /\ pc = "classified"
    /\ query = <<"page", "view">>
    /\ parsed.v.metric = "screenPageViews"
    /\ parsed.v.dimension = "pagePath"
    /\ query_type = "dimension_metric"

\* C28: whenever a turn runs the dimension_metric branch, the ranking of
\* the parsed query, which line 203 reads as the size of the table, is None
\* or 0, never a positive number: a positive ranking is classified ranking.
C28_NoPositiveRanking ==
    (TurnOver /\ branch = "dimension_metric") =>
        /\ parsed.ok
        /\ query_type = "dimension_metric"
        /\ parsed.v.ranking \in {<<>>, <<0>>}

\* 'by source, sessions, top 0' runs the dimension_metric branch with the
\* ranking 0
C28_Witness ==
    /\ TurnOver
    /\ branch = "dimension_metric"
    /\ query = P_bysource \o P_sessions \o P_top0
    /\ parsed.v.ranking = <<0>>

TurnPeriods ==
    {parsed.v.period} \cup (IF prev_period.ok THEN {prev_period.v} ELSE {})

\* C30: every collaborator call of a turn is made for the period parsed
\* from the text (or for the previous period computed from that one), and
\* the reply names the same period; the start_date and end_date the sidebar
\* passes to render_chat_view appear in no call and no reply; every call
\* carries the site_scope of the sidebar unchanged.
C30_SidebarDatesUnused ==
    (TurnOver /\ parsed.ok) =>
        /\ \A i \in 1..Len(calls) :
               /\ <<calls[i].start_date, calls[i].end_date>> \in TurnPeriods
               /\ calls[i].site_scope = site_scope
        /\ calls # <<>> => <<calls[1].start_date, calls[1].end_date>> = parsed.v.period
        /\ prev_period.ok =>
               prev_period = calculate_previous_period(parsed.v.period[1],
                                                       parsed.v.period[2])
        /\ (Replied("event") \/ Replied("overview")) =>
               <<LastEntry.content.start_date, LastEntry.content.end_date>>
                   = parsed.v.period

\* the sidebar set to the previous month and a site scope, the query asking
\* for an event count of the default period
C30_Witness ==
    /\ TurnOver
    /\ Replied("event")
    /\ Len(calls) = 2
    /\ site_scope = "USCPA"
    /\ calls[2].site_scope = "USCPA"
    /\ sidebar = render_sidebar("last_month", today).v
    /\ sidebar # parsed.v.period
    /\ sidebar # prev_period.v

=============================================================================
